---- MODULE Spec2Model ----
(***************************************************************************)
(* Model of the info aggregator of src/jetstream/info.go: portalProxy.info *)
(* and getInfo build one snapshot per request from the endpoint registry,  *)
(* the token store, the relation graph and the registered plugins.         *)
(* The registry, token store and relation graph are shared mutable stores  *)
(* changed by operator actions while a request is running.                 *)
(*                                                                         *)
(* The console side, frontend/app/store/helpers/paginated-request-         *)
(* helpers.ts: flattenPagination with CfAPIFlattener fetches the pages     *)
(* after the first and merges them, and TableCellEndpointDetailsComponent  *)
(* hands the rows it is given to one details component.                    *)
(***************************************************************************)
EXTENDS Naturals, Sequences, FiniteSets, TLC

\* ------------------------------------------------------------------ bounds
MaxRels == 2
MaxOps == 2
MaxPages == 3
MaxAssign == 3

\* ------------------------------------------------------------- value sets
Nil == "nil"
GUIDs == {"A", "B"}
GuidOrder == <<"A", "B">>
Users == {"U", "V"}
CNSITypes == {"cf", "k8s"}
\* relationType / metadata pairs of a relation
RelKinds == {<<"deploys-to", "m1">>, <<"binds", "m2">>}

\* p.Plugins: the extensions registered at process start.  A plugin either
\* exposes an endpoint plugin with a type tag (possibly empty) or does not.
Plugins ==
  << [endpoint |-> TRUE,  type |-> "cf"],
     [endpoint |-> FALSE, type |-> ""],
     [endpoint |-> TRUE,  type |-> ""] >>

\* The plugins for which GetEndpointPlugin succeeds.
EndpointPlugins == {i \in 1..Len(Plugins) : Plugins[i].endpoint}

\* What one call of an extension's UpdateMetadata does to the snapshot.
PluginActs == {"setKey", "setDiag", "error", "panic"}

VARIABLES
  cnsis,         \* endpoint registry: GUID -> CNSIType, or Nil when not registered
  userTokens,    \* token store: set of <<endpoint, user>> with a user-scoped token
  sharedTokens,  \* token store: set of endpoints with a system-shared token
  relations,     \* relation graph: sequence of relations in insertion order
  ops,           \* number of operator actions performed so far
  pc,            \* position of the request inside getInfo
  userGUID,      \* session user of the running request
  admin,         \* uaaUser.Admin of the running request
  s,             \* the interfaces.Info being built
  cnsiList,      \* result of buildCNSIList
  idx,           \* loop index of the loop over cnsiList
  rels,          \* result of ListRelations: ok flag and the list read
  inputs,        \* what the collaborators answered to this request
  seen,          \* per listed endpoint, the tokens the store held when resolved
  called,        \* collaborators called by the running request
  updated,       \* plugins whose UpdateMetadata was called, in call order
  faults,        \* plugins whose UpdateMetadata failed in this request
  response,      \* what info() answered: status and error text
  requestOptions,  \* CfAPIFlattener.requestOptions: holds a reference to its params
  paramsHeap,      \* the URLSearchParams objects, by reference
  firstResData,    \* the first response handed to flattenPagination
  builtOptions,    \* the request options buildFetchParams returned, in call order
  requests,        \* the fetches issued for the later pages, in issue order
  flattenState,    \* waiting, fetching, emitted, thrown or error
  merged,          \* the value emitted by flattenPagination
  emissions,       \* number of values emitted by flattenPagination
  pRow,            \* TableCellEndpointDetailsComponent.pRow
  cell,            \* TableCellEndpointDetailsComponent.cell
  created,         \* number of details components created for the cell
  assignments,     \* number of row assignments so far
  destroyed        \* ngOnDestroy has run

backend == <<cnsis, userTokens, sharedTokens, relations, ops, pc, userGUID, admin,
             s, cnsiList, idx, rels, inputs, seen, called, updated, faults, response>>
flattener == <<requestOptions, paramsHeap, firstResData, builtOptions, requests,
               flattenState, merged, emissions>>
tableCell == <<pRow, cell, created, assignments, destroyed>>
console == <<flattener, tableCell>>

vars == <<backend, console>>

store == <<cnsis, userTokens, sharedTokens, relations, ops>>
request == <<pc, userGUID, admin, s, cnsiList, idx, rels, inputs, seen, called, updated,
             faults, response>>

\* ------------------------------------------------------------------- maps
EmptyMap == [x \in {} |-> Nil]
MapPut(m, k, v) == [x \in DOMAIN m \cup {k} |-> IF x = k THEN v ELSE m[x]]

\* ------------------------------------------------------------ token store
\* Token records of the token store.
UserToken(u) == [User |-> u, Metadata |-> "user-token", SystemShared |-> FALSE]
SharedToken == [User |-> "system", Metadata |-> "shared-token", SystemShared |-> TRUE]

\* GetCNSIUserAndToken(cnsiGUID, userGUID): the per-user token first, the
\* system-shared token as fallback.
GetCNSIUserAndToken(g, u) ==
  IF <<g, u>> \in userTokens THEN [ok |-> TRUE, token |-> UserToken(u)]
  ELSE IF g \in sharedTokens THEN [ok |-> TRUE, token |-> SharedToken]
  ELSE [ok |-> FALSE, token |-> SharedToken]

\* -------------------------------------------------------------- registry
\* buildCNSIList: the registered endpoints as CNSI records.
RECURSIVE ListFrom(_)
ListFrom(i) ==
  IF i > Len(GuidOrder) THEN <<>>
  ELSE LET g == GuidOrder[i]
       IN (IF cnsis[g] = Nil THEN <<>> ELSE <<[GUID |-> g, CNSIType |-> cnsis[g]]>>)
          \o ListFrom(i + 1)

buildCNSIList(storeOk) == IF storeOk THEN ListFrom(1) ELSE <<>>

\* ---------------------------------------------------------------- getInfo
NoRelations == [isNil |-> TRUE, Provides |-> <<>>, Receives |-> <<>>]

\* NewEndpointDetail with the shared flag set from the start.
NewEndpointDetailShared(cnsi) ==
  [GUID |-> cnsi.GUID, CNSIType |-> cnsi.CNSIType, User |-> Nil,
   TokenMetadata |-> Nil, SystemSharedToken |-> TRUE, Relations |-> NoRelations]

\* info.go 119-124: the EndpointDetail as first built from the CNSI record.
NewEndpointDetail(cnsi) ==
  [GUID |-> cnsi.GUID, CNSIType |-> cnsi.CNSIType, User |-> Nil,
   TokenMetadata |-> Nil, SystemSharedToken |-> FALSE, Relations |-> NoRelations]

\* WithToken with the shared flag set whenever a token was found.
WithTokenSharedIfFound(endpoint, r) ==
  IF r.ok
  THEN [endpoint EXCEPT !.User = r.token.User,
                        !.TokenMetadata = r.token.Metadata,
                        !.SystemSharedToken = TRUE]
  ELSE endpoint

\* info.go 127-132: the resolved credential copied into the detail.
WithToken(endpoint, r) ==
  IF r.ok
  THEN [endpoint EXCEPT !.User = r.token.User,
                        !.TokenMetadata = r.token.Metadata,
                        !.SystemSharedToken = r.token.SystemShared]
  ELSE endpoint

\* InitEndpoints without the test for an empty type.
RECURSIVE InitEndpointsAnyType(_, _)
InitEndpointsAnyType(m, i) ==
  IF i > Len(Plugins) THEN m
  ELSE IF Plugins[i].endpoint
       THEN InitEndpointsAnyType(MapPut(m, Plugins[i].type, EmptyMap), i + 1)
       ELSE InitEndpointsAnyType(m, i + 1)

\* info.go 102-113: one empty bucket per non-empty endpoint-plugin type.
RECURSIVE InitEndpoints(_, _)
InitEndpoints(m, i) ==
  IF i > Len(Plugins) THEN m
  ELSE IF Plugins[i].endpoint /\ Plugins[i].type # ""
       THEN InitEndpoints(MapPut(m, Plugins[i].type, EmptyMap), i + 1)
       ELSE InitEndpoints(m, i + 1)

\* info.go 97-100: diagnostics only for an admin.
InitialDiagnostics(isAdmin) == IF isAdmin THEN "p.Diagnostics" ELSE Nil

\* info.go 89-113: the initial info struct.
NewInfo(u, isAdmin) ==
  [User |-> u, Diagnostics |-> InitialDiagnostics(isAdmin),
   Endpoints |-> InitEndpoints(EmptyMap, 1), Key |-> 0, Plugins |-> Nil]

EmptyInfo ==
  [User |-> Nil, Diagnostics |-> Nil, Endpoints |-> EmptyMap, Key |-> 0, Plugins |-> Nil]

\* AddRelation with the two lists swapped.
AddRelationSwapped(endpoint, relation) ==
  IF relation.Provider = endpoint.GUID
  THEN [endpoint EXCEPT !.Relations.Receives =
          Append(@, [Guid |-> relation.Target,
                     RelationType |-> relation.RelationType,
                     Metadata |-> relation.Metadata])]
  ELSE IF relation.Target = endpoint.GUID
  THEN [endpoint EXCEPT !.Relations.Provides =
          Append(@, [Guid |-> relation.Provider,
                     RelationType |-> relation.RelationType,
                     Metadata |-> relation.Metadata])]
  ELSE endpoint

\* info.go 48-63: one relation folded into one endpoint.
AddRelation(endpoint, relation) ==
  IF relation.Provider = endpoint.GUID
  THEN [endpoint EXCEPT !.Relations.Provides =
          Append(@, [Guid |-> relation.Target,
                     RelationType |-> relation.RelationType,
                     Metadata |-> relation.Metadata])]
  ELSE IF relation.Target = endpoint.GUID
  THEN [endpoint EXCEPT !.Relations.Receives =
          Append(@, [Guid |-> relation.Provider,
                     RelationType |-> relation.RelationType,
                     Metadata |-> relation.Metadata])]
  ELSE endpoint

\* AddRelations going through the relations from the last to the first.
RECURSIVE AddRelationsReversed(_, _, _)
AddRelationsReversed(endpoint, rl, i) ==
  IF i > Len(rl) THEN endpoint
  ELSE AddRelation(AddRelationsReversed(endpoint, rl, i + 1), rl[i])

\* info.go 48-63: the relations folded into one endpoint, in list order.
RECURSIVE AddRelations(_, _, _)
AddRelations(endpoint, rl, i) ==
  IF i > Len(rl) THEN endpoint
  ELSE AddRelations(AddRelation(endpoint, rl[i]), rl, i + 1)

\* info.go 42-47: a nil Relations becomes two empty lists.
EnsureRelations(endpoint) ==
  IF endpoint.Relations.isNil
  THEN [endpoint EXCEPT !.Relations = [isNil |-> FALSE, Provides |-> <<>>, Receives |-> <<>>]]
  ELSE endpoint

\* info.go 35-68: every endpoint of every bucket gets its relations.
updateEndpointsWithRelations(endpoints, rl) ==
  [t \in DOMAIN endpoints |->
     [g \in DOMAIN endpoints[t] |->
        AddRelations(EnsureRelations(endpoints[t][g]), rl, 1)]]

NoRels == [ok |-> FALSE, list |-> <<>>]
NoInputs == [failure |-> "none", storeOk |-> TRUE, relOk |-> TRUE, acts |-> EmptyMap]

\* ------------------------------------------------- paginated responses
\* The endpoints a CF response can be keyed by, in key order.
EndpointGuids == {"e1", "e2"}
EndpointGuidOrder == <<"e1", "e2">>

\* The page parameter the stored request options start with.
FirstPage == "1"

\* A resource of an endpoint, as served on one page.
Resource(g, page) == [guid |-> g, page |-> page]

\* An endpoint of a response: a key that is absent, or an object with its
\* total_pages and, when hasResources, its resources array.
NoEndpoint ==
  [present |-> FALSE, total_pages |-> 0, hasResources |-> FALSE, resources |-> <<>>]
Endpoint(total, has, res) ==
  [present |-> TRUE, total_pages |-> total, hasResources |-> has, resources |-> res]

FirstPageEndpoints(g) ==
  {NoEndpoint} \cup
  {Endpoint(t, FALSE, <<>>) : t \in 1..MaxPages} \cup
  {Endpoint(t, TRUE, <<>>) : t \in 1..MaxPages} \cup
  {Endpoint(t, TRUE, <<Resource(g, FirstPage)>>) : t \in 1..MaxPages}

\* What a later page holds for one endpoint: no key, an empty resources
\* array, or one resource.
PageShapes == [EndpointGuids -> {"absent", "empty", "one"}]
LaterPageEndpoint(g, page, shape) ==
  CASE shape = "absent" -> NoEndpoint
    [] shape = "empty"  -> Endpoint(0, TRUE, <<>>)
    [] OTHER            -> Endpoint(0, TRUE, <<Resource(g, page)>>)

\* BaseFetcher.fetch 16-25: a body that does not parse is mapped to null.
NullResponse == [isNull |-> TRUE, body |-> [g \in EndpointGuids |-> NoEndpoint]]
Response(body) == [isNull |-> FALSE, body |-> body]

FirstResponses ==
  {Response(b) : b \in {f \in [EndpointGuids -> UNION {FirstPageEndpoints(g) : g \in EndpointGuids}] :
                          \A g \in EndpointGuids : f[g] \in FirstPageEndpoints(g)}}

LaterResponse(page, shape) ==
  Response([g \in EndpointGuids |-> LaterPageEndpoint(g, page, shape[g])])

\* Object.keys of a response.
Keys(res) == SelectSeq(EndpointGuidOrder, LAMBDA g : res.body[g].present)

\* paginated-request-helpers.ts 36-40: the reduce over the keys, from 0.
RECURSIVE getTotalPagesFrom(_, _, _, _)
getTotalPagesFrom(res, keys, k, max) ==
  IF k > Len(keys) THEN max
  ELSE LET endpoint == res.body[keys[k]]
       IN getTotalPagesFrom(res, keys, k + 1,
            IF max < endpoint.total_pages THEN endpoint.total_pages ELSE max)

getTotalPages(res) == getTotalPagesFrom(res, Keys(res), 1, 0)

\* paginated-request-helpers.ts 47-54: one endpoint of one later page merged
\* into the first page.  Reading a key of a null page throws, and so does
\* concat on a first-page endpoint without a resources array.
MergeEndpoint(newResData, endpointResponse, g) ==
  IF newResData.threw THEN newResData
  ELSE IF endpointResponse.isNull THEN [newResData EXCEPT !.threw = TRUE]
  ELSE LET endpoint == endpointResponse.body[g]
       IN IF endpoint.present /\ endpoint.hasResources /\ Len(endpoint.resources) > 0
          THEN IF newResData.data[g].hasResources
               THEN [newResData EXCEPT !.data[g].resources = @ \o endpoint.resources]
               ELSE [newResData EXCEPT !.threw = TRUE]
          ELSE newResData

\* paginated-request-helpers.ts 47: endpointGuids.forEach over one page.
RECURSIVE MergePage(_, _, _, _)
MergePage(newResData, endpointResponse, keys, k) ==
  IF k > Len(keys) THEN newResData
  ELSE MergePage(MergeEndpoint(newResData, endpointResponse, keys[k]),
                 endpointResponse, keys, k + 1)

\* paginated-request-helpers.ts 45-56: the loop over responses[1..].
RECURSIVE MergePagesFrom(_, _, _, _)
MergePagesFrom(newResData, responses, keys, i) ==
  IF i > Len(responses) THEN newResData
  ELSE MergePagesFrom(MergePage(newResData, responses[i], keys, 1), responses, keys, i + 1)

\* paginated-request-helpers.ts 41-58: threw tells whether the merge threw.
mergePages(responses) ==
  MergePagesFrom([threw |-> FALSE, data |-> responses[1].body], responses,
                 Keys(responses[1]), 2)

\* paginated-request-helpers.ts 59-63 and 13-15, for the pages i..max: the
\* copy of the stored options shares its params object, the page is set on
\* that object, and the Request made from the options takes its URL from it.
RECURSIVE BuildAndFetch(_, _, _, _)
BuildAndFetch(options, st, i, max) ==
  IF i > max THEN st
  ELSE LET requestOption == options
           heap == [st.heap EXCEPT ![requestOption.params] = [page |-> ToString(i)]]
           fetch == [page |-> heap[requestOption.params].page, done |-> FALSE,
                     resData |-> NullResponse]
       IN BuildAndFetch(options,
                        [heap |-> heap,
                         built |-> Append(st.built, requestOption),
                         requests |-> Append(st.requests, fetch)],
                        i + 1, max)

FlattenerIdle ==
  /\ requestOptions = [params |-> 1]
  /\ paramsHeap = <<[page |-> FirstPage]>>
  /\ firstResData = NullResponse
  /\ builtOptions = <<>>
  /\ requests = <<>>
  /\ flattenState = "waiting"
  /\ merged = NullResponse.body
  /\ emissions = 0

\* ------------------------------------------------------------ table cell
CellTypes == {"cf", "k8s", "metrics", "unknown"}
RowGuids == {"r1", "r2"}
Rows == [cnsi_type : CellTypes, guid : RowGuids]
NoRow == [cnsi_type |-> Nil, guid |-> Nil]

\* entityCatalogueService.getEndpoint(type, subType).entity: the catalogue
\* entity of an endpoint type and the details component it declares.
getEndpoint(type) ==
  [entity |->
     CASE type = "cf"      -> [exists |-> TRUE,  listDetailsComponent |-> "CfEndpointDetails"]
       [] type = "k8s"     -> [exists |-> TRUE,  listDetailsComponent |-> "KubernetesEndpointDetails"]
       [] type = "metrics" -> [exists |-> TRUE,  listDetailsComponent |-> Nil]
       [] OTHER            -> [exists |-> FALSE, listDetailsComponent |-> Nil]]

NoCell == [exists |-> FALSE, component |-> Nil, row |-> NoRow, isTable |-> FALSE]

\* endpointListHelper.createEndpointDetails: a new instance of the component.
createEndpointDetails(listDetailsComponent) ==
  [exists |-> TRUE, component |-> listDetailsComponent, row |-> NoRow, isTable |-> FALSE]

TableCellIdle ==
  /\ pRow = NoRow
  /\ cell = NoCell
  /\ created = 0
  /\ assignments = 0
  /\ destroyed = FALSE

BackendIdle ==
  /\ cnsis = [g \in GUIDs |-> Nil]
  /\ userTokens = {}
  /\ sharedTokens = {}
  /\ relations = <<>>
  /\ ops = 0
  /\ pc = "idle"
  /\ userGUID = Nil
  /\ admin = FALSE
  /\ s = EmptyInfo
  /\ cnsiList = <<>>
  /\ idx = 0
  /\ rels = NoRels
  /\ inputs = NoInputs
  /\ seen = EmptyMap
  /\ called = {}
  /\ updated = <<>>
  /\ faults = {}
  /\ response = [status |-> 0, error |-> Nil]

\* ------------------------------------------------------------------- init
Init ==
  /\ cnsis \in [GUIDs -> CNSITypes \cup {Nil}]
  /\ userTokens = {}
  /\ sharedTokens = {}
  /\ relations = <<>>
  /\ ops = 0
  /\ pc = "idle"
  /\ userGUID = Nil
  /\ admin = FALSE
  /\ s = EmptyInfo
  /\ cnsiList = <<>>
  /\ idx = 0
  /\ rels = NoRels
  /\ inputs = NoInputs
  /\ seen = EmptyMap
  /\ called = {}
  /\ updated = <<>>
  /\ faults = {}
  /\ response = [status |-> 0, error |-> Nil]
  /\ FlattenerIdle
  /\ TableCellIdle

\* ------------------------------------------------------- operator actions
Register(g, t) ==
  /\ ops < MaxOps
  /\ cnsis[g] = Nil
  /\ cnsis' = [cnsis EXCEPT ![g] = t]
  /\ ops' = ops + 1
  /\ UNCHANGED <<userTokens, sharedTokens, relations>>
  /\ UNCHANGED <<request, console>>

Remove(g) ==
  /\ ops < MaxOps
  /\ cnsis[g] # Nil
  /\ cnsis' = [cnsis EXCEPT ![g] = Nil]
  /\ ops' = ops + 1
  /\ UNCHANGED <<userTokens, sharedTokens, relations>>
  /\ UNCHANGED <<request, console>>

PutUserToken(g, u) ==
  /\ ops < MaxOps
  /\ <<g, u>> \notin userTokens
  /\ userTokens' = userTokens \cup {<<g, u>>}
  /\ ops' = ops + 1
  /\ UNCHANGED <<cnsis, sharedTokens, relations>>
  /\ UNCHANGED <<request, console>>

PutSharedToken(g) ==
  /\ ops < MaxOps
  /\ g \notin sharedTokens
  /\ sharedTokens' = sharedTokens \cup {g}
  /\ ops' = ops + 1
  /\ UNCHANGED <<cnsis, userTokens, relations>>
  /\ UNCHANGED <<request, console>>

RevokeUserToken(g, u) ==
  /\ ops < MaxOps
  /\ <<g, u>> \in userTokens
  /\ userTokens' = userTokens \ {<<g, u>>}
  /\ ops' = ops + 1
  /\ UNCHANGED <<cnsis, sharedTokens, relations>>
  /\ UNCHANGED <<request, console>>

RevokeSharedToken(g) ==
  /\ ops < MaxOps
  /\ g \in sharedTokens
  /\ sharedTokens' = sharedTokens \ {g}
  /\ ops' = ops + 1
  /\ UNCHANGED <<cnsis, userTokens, relations>>
  /\ UNCHANGED <<request, console>>

CreateRelation(p, t, k) ==
  /\ ops < MaxOps
  /\ Len(relations) < MaxRels
  /\ cnsis[p] # Nil
  /\ cnsis[t] # Nil
  /\ relations' = Append(relations,
                         [Provider |-> p, Target |-> t,
                          RelationType |-> k[1], Metadata |-> k[2]])
  /\ ops' = ops + 1
  /\ UNCHANGED <<cnsis, userTokens, sharedTokens>>
  /\ UNCHANGED <<request, console>>

DeleteRelation(i) ==
  /\ ops < MaxOps
  /\ i \in 1..Len(relations)
  /\ relations' = [j \in 1..(Len(relations) - 1) |->
                     IF j < i THEN relations[j] ELSE relations[j + 1]]
  /\ ops' = ops + 1
  /\ UNCHANGED <<cnsis, userTokens, sharedTokens>>
  /\ UNCHANGED <<request, console>>

\* -------------------------------------------------------- request actions
\* info.go 24-32: info() answers 403 with the error text of getInfo.
Forbidden(msg) == [status |-> 403, error |-> msg]

\* The collaborator of lines 70-86 that fails, if any.
StartFailures == {"none", "getVersionsData", "GetSessionStringValue", "GetUAAUser"}

\* GetInfoError with the error of GetUAAUser dropped.
GetInfoErrorWithoutUAA(failure) ==
  IF failure = "getVersionsData" THEN "Could not find database version"
  ELSE IF failure = "GetSessionStringValue" THEN "Could not find session user_id"
  ELSE Nil

\* info.go 70-86: the error getInfo returns for a failing collaborator.
GetInfoError(failure) ==
  IF failure = "getVersionsData" THEN "Could not find database version"
  ELSE IF failure = "GetSessionStringValue" THEN "Could not find session user_id"
  ELSE IF failure = "GetUAAUser" THEN "Could not load session user data"
  ELSE Nil

\* info.go 70-86: the collaborators called up to and including the failing one.
CalledUpTo(failure) ==
  IF failure = "getVersionsData" THEN {"getVersionsData"}
  ELSE IF failure = "GetSessionStringValue"
       THEN {"getVersionsData", "GetSessionStringValue"}
       ELSE {"getVersionsData", "GetSessionStringValue", "GetUAAUser"}

\* info.go 70-113 and 24-32: versions, session user, UAA user, the initial
\* struct with its buckets; an error of getInfo is answered with 403.
Start(u, isAdmin, failure) ==
  /\ pc \in {"idle", "done"}
  /\ cnsiList' = <<>>
  /\ idx' = 0
  /\ rels' = NoRels
  /\ seen' = EmptyMap
  /\ updated' = <<>>
  /\ faults' = {}
  /\ inputs' = [NoInputs EXCEPT !.failure = failure]
  /\ called' = CalledUpTo(failure)
  /\ userGUID' = (IF failure \in {"getVersionsData", "GetSessionStringValue"} THEN Nil ELSE u)
  /\ IF GetInfoError(failure) # Nil
     THEN /\ response' = Forbidden(GetInfoError(failure))
          /\ admin' = FALSE
          /\ s' = EmptyInfo
          /\ pc' = "done"
     ELSE /\ response' = [status |-> 0, error |-> Nil]
          /\ admin' = isAdmin
          /\ s' = NewInfo(u, isAdmin)
          /\ pc' = "list"
  /\ UNCHANGED <<store, console>>

\* info.go 115-116: the CNSI list; the error of buildCNSIList is discarded.
List(storeOk) ==
  /\ pc = "list"
  /\ cnsiList' = buildCNSIList(storeOk)
  /\ idx' = 1
  /\ inputs' = [inputs EXCEPT !.storeOk = storeOk]
  /\ called' = called \cup {"buildCNSIList"}
  /\ pc' = "cnsi"
  /\ UNCHANGED <<userGUID, admin, s, rels, seen, updated, faults, response>>
  /\ UNCHANGED <<store, console>>

\* info.go 133-134: s.Endpoints[cnsiType][cnsi.GUID] = endpoint.  Writing
\* into the nil map of a type without bucket is a run-time panic.
HasBucket(info, cnsiType) == cnsiType \in DOMAIN info.Endpoints

PutEndpoint(info, endpoint) ==
  [info EXCEPT !.Endpoints =
     MapPut(@, endpoint.CNSIType, MapPut(@[endpoint.CNSIType], endpoint.GUID, endpoint))]

Panicked == [status |-> 500, error |-> "panic"]

\* info.go 117-135: one iteration of the loop over cnsiList.
Cnsi ==
  /\ pc = "cnsi"
  /\ idx <= Len(cnsiList)
  /\ LET cnsi == cnsiList[idx]
         endpoint == WithToken(NewEndpointDetail(cnsi),
                               GetCNSIUserAndToken(cnsi.GUID, userGUID))
     IN /\ called' = called \cup {"GetCNSIUserAndToken"}
        /\ seen' = MapPut(seen, cnsi.GUID,
                          [own |-> <<cnsi.GUID, userGUID>> \in userTokens,
                           shared |-> cnsi.GUID \in sharedTokens,
                           other |-> \E v \in Users \ {userGUID} :
                                       <<cnsi.GUID, v>> \in userTokens])
        /\ IF HasBucket(s, cnsi.CNSIType)
           THEN /\ s' = PutEndpoint(s, endpoint)
                /\ idx' = idx + 1
                /\ UNCHANGED <<pc, response>>
           ELSE /\ response' = Panicked
                /\ pc' = "done"
                /\ UNCHANGED <<s, idx>>
  /\ UNCHANGED <<userGUID, admin, cnsiList, rels, inputs, updated, faults>>
  /\ UNCHANGED <<store, console>>

\* info.go 137-140: the relations are attached; a failure of ListRelations
\* is logged and the endpoints stay as they are.
Relations(relOk) ==
  /\ pc = "cnsi"
  /\ idx > Len(cnsiList)
  /\ called' = called \cup {"ListRelations"}
  /\ s' = IF relOk
          THEN [s EXCEPT !.Endpoints = updateEndpointsWithRelations(@, relations)]
          ELSE s
  /\ rels' = [ok |-> relOk, list |-> IF relOk THEN relations ELSE <<>>]
  /\ inputs' = [inputs EXCEPT !.relOk = relOk]
  /\ pc' = "plugins"
  /\ UNCHANGED <<userGUID, admin, cnsiList, idx, seen, updated, faults, response>>
  /\ UNCHANGED <<store, console>>

\* What a call of UpdateMetadata of plugin i leaves in the snapshot.
UpdateMetadata(info, i, act) ==
  IF act = "setKey" THEN [info EXCEPT !.Key = i]
  ELSE IF act = "setDiag" THEN [info EXCEPT !.Diagnostics = "plugin-diagnostics"]
  ELSE info

\* info.go 142-148: the loop over the plugins, from plugin i on.  A plugin
\* without endpoint plugin is skipped.  The call is not guarded: a panic
\* raised inside UpdateMetadata unwinds getInfo and ends the loop.
RECURSIVE RunPlugins(_, _, _)
RunPlugins(run, i, acts) ==
  IF i > Len(Plugins) THEN run
  ELSE IF ~Plugins[i].endpoint THEN RunPlugins(run, i + 1, acts)
  ELSE LET after == [info |-> UpdateMetadata(run.info, i, acts[i]),
                     updated |-> Append(run.updated, i),
                     faults |-> IF acts[i] \in {"error", "panic"}
                                THEN run.faults \cup {i} ELSE run.faults,
                     panicked |-> acts[i] = "panic"]
       IN IF after.panicked THEN after ELSE RunPlugins(after, i + 1, acts)

\* info.go 150: the plugin status is added last.
WithPluginsStatus(info) == [info EXCEPT !.Plugins = "p.PluginsStatus"]

\* info.go 142-152 and 31: the plugins post-process the snapshot, then it
\* is answered with status 200.
PluginsAndReturn(acts) ==
  /\ pc = "plugins"
  /\ LET run == RunPlugins([info |-> s, updated |-> <<>>, faults |-> {},
                            panicked |-> FALSE], 1, acts)
     IN /\ updated' = run.updated
        /\ faults' = run.faults
        /\ called' = IF run.updated # <<>> THEN called \cup {"UpdateMetadata"} ELSE called
        /\ IF run.panicked
           THEN /\ s' = run.info
                /\ response' = Panicked
           ELSE /\ s' = WithPluginsStatus(run.info)
                /\ response' = [status |-> 200, error |-> Nil]
  /\ inputs' = [inputs EXCEPT !.acts = acts]
  /\ pc' = "done"
  /\ UNCHANGED <<userGUID, admin, cnsiList, idx, rels, seen>>
  /\ UNCHANGED <<store, console>>

\* The request of one of the given users: info() and the steps of getInfo.
Request(users) ==
  \/ \E u \in users, a \in BOOLEAN, f \in StartFailures : Start(u, a, f)
  \/ \E ok \in BOOLEAN : List(ok)
  \/ Cnsi
  \/ \E ok \in BOOLEAN : Relations(ok)
  \/ \E acts \in [EndpointPlugins -> PluginActs] : PluginsAndReturn(acts)

\* Requests run while operators change the registry and the relation graph.
\* No token is stored here, so one requesting user stands for all.
Next ==
  \/ \E g \in GUIDs, t \in CNSITypes : Register(g, t)
  \/ \E g \in GUIDs : Remove(g)
  \/ \E p \in GUIDs, t \in GUIDs, k \in RelKinds : CreateRelation(p, t, k)
  \/ \E i \in 1..MaxRels : DeleteRelation(i)
  \/ Request({"U"})

Spec == Init /\ [][Next]_vars

\* Requests run while users connect to and disconnect from the endpoints.
NextTokens ==
  \/ \E g \in GUIDs, u \in Users : PutUserToken(g, u)
  \/ \E g \in GUIDs : PutSharedToken(g)
  \/ \E g \in GUIDs, u \in Users : RevokeUserToken(g, u)
  \/ \E g \in GUIDs : RevokeSharedToken(g)
  \/ Request(Users)

SpecTokens == Init /\ [][NextTokens]_vars

\* ---------------------------------------------------- flattenPagination
AllDone(rq) == \A i \in 1..Len(rq) : rq[i].done

\* The responses forkJoin hands to mergePages: the first page, then the pages
\* in the order their fetches were pushed.
Responses(first, rq) == <<first>> \o [i \in 1..Len(rq) |-> rq[i].resData]

\* paginated-request-helpers.ts 85-89: forkJoin emits once every request has
\* completed, and map(mergePages) emits the merged value or fails.
Emit(first, rq) ==
  IF ~AllDone(rq)
  THEN /\ flattenState' = "fetching"
       /\ UNCHANGED <<merged, emissions>>
  ELSE LET r == mergePages(Responses(first, rq))
       IN IF r.threw
          THEN /\ flattenState' = "thrown"
               /\ UNCHANGED <<merged, emissions>>
          ELSE /\ flattenState' = "emitted"
               /\ merged' = r.data
               /\ emissions' = emissions + 1

\* paginated-request-helpers.ts 71-85: the first response arrives; the later
\* pages are requested.
FirstResponse(res) ==
  /\ flattenState = "waiting"
  /\ firstResData' = res
  /\ LET maxRequests == getTotalPages(res)
         st == BuildAndFetch(requestOptions,
                             [heap |-> paramsHeap, built |-> <<>>, requests |-> <<>>],
                             2, maxRequests)
     IN /\ paramsHeap' = st.heap
        /\ builtOptions' = st.built
        /\ requests' = st.requests
        /\ Emit(res, st.requests)
  /\ UNCHANGED <<requestOptions, backend, tableCell>>

\* The i-th fetch completes with resData.
Completed(i, resData) ==
  /\ flattenState = "fetching"
  /\ i \in 1..Len(requests)
  /\ ~requests[i].done
  /\ requests' = [requests EXCEPT ![i] = [@ EXCEPT !.done = TRUE, !.resData = resData]]
  /\ Emit(firstResData, requests')
  /\ UNCHANGED <<requestOptions, paramsHeap, firstResData, builtOptions, backend, tableCell>>

\* The fetch of one later page completes with the page the server holds for
\* the page number of its URL.
Complete(i, shape) ==
  /\ i \in 1..Len(requests)
  /\ Completed(i, LaterResponse(requests[i].page, shape))

\* The fetch of one later page completes with a body that is not JSON.
CompleteUnparsed(i) ==
  /\ i \in 1..Len(requests)
  /\ Completed(i, NullResponse)

\* The fetch of one later page fails: forkJoin passes the error on.
Fail(i) ==
  /\ flattenState = "fetching"
  /\ i \in 1..Len(requests)
  /\ ~requests[i].done
  /\ flattenState' = "error"
  /\ UNCHANGED <<requestOptions, paramsHeap, firstResData, builtOptions, requests,
                 merged, emissions, backend, tableCell>>

\* The console before any response or row has arrived; no request is running
\* on the backend.
InitConsole == BackendIdle /\ FlattenerIdle /\ TableCellIdle

NextFlatten ==
  \/ \E res \in FirstResponses : FirstResponse(res)
  \/ \E i \in 1..MaxPages, shape \in PageShapes : Complete(i, shape)
  \/ \E i \in 1..MaxPages : CompleteUnparsed(i)
  \/ \E i \in 1..MaxPages : Fail(i)

SpecFlatten == InitConsole /\ [][NextFlatten]_vars

\* ------------------------------------------ TableCellEndpointDetailsComponent
\* paginated-request-helpers.ts 135-154: the row setter.
SetRow(row) ==
  /\ ~destroyed
  /\ assignments < MaxAssign
  /\ assignments' = assignments + 1
  /\ pRow' = row
  /\ LET e == getEndpoint(row.cnsi_type).entity
     IN IF ~e.exists \/ e.listDetailsComponent = Nil
        THEN UNCHANGED <<cell, created>>
        ELSE LET c == IF ~cell.exists THEN createEndpointDetails(e.listDetailsComponent)
                      ELSE cell
             IN /\ created' = IF ~cell.exists THEN created + 1 ELSE created
                /\ cell' = IF c.exists THEN [c EXCEPT !.row = row, !.isTable = TRUE] ELSE c
  /\ UNCHANGED <<destroyed, backend, flattener>>

\* paginated-request-helpers.ts 160-166.
ngOnDestroy ==
  /\ ~destroyed
  /\ destroyed' = TRUE
  /\ UNCHANGED <<pRow, cell, created, assignments, backend, flattener>>

NextCell ==
  \/ \E row \in Rows : SetRow(row)
  \/ ngOnDestroy

SpecCell == InitConsole /\ [][NextCell]_vars

\* ----------------------------------------------------------------- claims
\* The request was answered with a snapshot.
Returned == pc = "done" /\ response.status = 200

SnapshotGuids(info) == UNION {DOMAIN info.Endpoints[t] : t \in DOMAIN info.Endpoints}

Detail(info, g) ==
  info.Endpoints[CHOOSE t \in DOMAIN info.Endpoints : g \in DOMAIN info.Endpoints[t]][g]

Entry(peer, R) == [Guid |-> peer, RelationType |-> R.RelationType, Metadata |-> R.Metadata]

Count(x, q) == Cardinality({i \in 1..Len(q) : q[i] = x})

EntryPeers(d) ==
  {d.Relations.Provides[i].Guid : i \in 1..Len(d.Relations.Provides)}
    \cup {d.Relations.Receives[i].Guid : i \in 1..Len(d.Relations.Receives)}

LaterSteps == {"buildCNSIList", "GetCNSIUserAndToken", "ListRelations", "UpdateMetadata"}

\* C1: the snapshot returned to a user who is not an admin never holds
\* diagnostics, whatever the plugins' UpdateMetadata wrote into it.
C1_NonAdminNoDiagnostics == (Returned /\ ~admin) => s.Diagnostics = Nil

\* C2: once the relations are attached, every relation read whose provider A
\* and target B differ and are both in the snapshot has an entry (B, type,
\* metadata) in A's Provides and an entry (A, type, metadata) in B's Receives.
C2_RelationOnBothSides ==
  rels.ok =>
    \A i \in 1..Len(rels.list) :
      LET R == rels.list[i]
      IN (R.Provider # R.Target /\ {R.Provider, R.Target} \subseteq SnapshotGuids(s)) =>
           /\ Count(Entry(R.Target, R), Detail(s, R.Provider).Relations.Provides) >= 1
           /\ Count(Entry(R.Provider, R), Detail(s, R.Target).Relations.Receives) >= 1

C2_Witness ==
  /\ Returned
  /\ rels.ok
  /\ \E i \in 1..Len(rels.list) :
       /\ rels.list[i].Provider # rels.list[i].Target
       /\ {rels.list[i].Provider, rels.list[i].Target} \subseteq SnapshotGuids(s)

\* C3: once the relations are attached, a self-relation (A, A) of an endpoint
\* A of the snapshot has exactly one entry with peer A in A's Provides and
\* exactly one in A's Receives (one per such relation read).
C3_SelfRelationOnceInEachList ==
  rels.ok =>
    \A i \in 1..Len(rels.list) :
      LET R == rels.list[i]
      IN (R.Provider = R.Target /\ R.Provider \in SnapshotGuids(s)) =>
           /\ Count(Entry(R.Provider, R), Detail(s, R.Provider).Relations.Provides)
                = Count(R, rels.list)
           /\ Count(Entry(R.Provider, R), Detail(s, R.Provider).Relations.Receives)
                = Count(R, rels.list)

\* C4: an aggregation that lists the endpoints and reads the relations after
\* an endpoint was removed answers with a snapshot in which no Provides or
\* Receives entry has a removed endpoint as its peer.
C4_DanglingRelationDropped ==
  (pc = "done" /\ rels.ok /\ inputs.storeOk /\ faults = {}) =>
    /\ response.status = 200
    /\ \A g \in SnapshotGuids(s) :
         \A peer \in EntryPeers(Detail(s, g)) :
           peer \in SnapshotGuids(s) \/ cnsis[peer] # Nil

\* The endpoint plugins in registration order.
RECURSIVE EndpointPluginsFrom(_)
EndpointPluginsFrom(i) ==
  IF i > Len(Plugins) THEN <<>>
  ELSE (IF Plugins[i].endpoint THEN <<i>> ELSE <<>>) \o EndpointPluginsFrom(i + 1)

\* C5: a request in which the UpdateMetadata of a plugin failed is still
\* answered with a snapshot, every endpoint plugin was called, and every
\* listed endpoint is still in the snapshot.
C5_PluginFaultIsolated ==
  (pc = "done" /\ faults # {}) =>
    /\ response.status = 200
    /\ updated = EndpointPluginsFrom(1)
    /\ \A i \in 1..Len(cnsiList) : cnsiList[i].GUID \in SnapshotGuids(s)

\* C6: an endpoint for which the store held both a token of the requesting
\* user and a system-shared token when it was resolved shows the user's
\* token and SystemSharedToken = FALSE; a detail shows SystemSharedToken =
\* TRUE only when the store held no token of the requesting user.
C6_UserTokenBeforeShared ==
  \A g \in DOMAIN seen :
    g \in SnapshotGuids(s) =>
      LET d == Detail(s, g)
      IN /\ (seen[g].own /\ seen[g].shared) =>
              /\ d.User = userGUID
              /\ d.TokenMetadata = UserToken(userGUID).Metadata
              /\ d.SystemSharedToken = FALSE
         /\ d.SystemSharedToken => (~seen[g].own /\ seen[g].shared)

C6_Witness ==
  /\ Returned
  /\ \E g \in DOMAIN seen :
       /\ g \in SnapshotGuids(s)
       /\ seen[g].own
       /\ seen[g].shared

\* C7: a request that listed the endpoints, and in which no plugin failed,
\* is answered with a snapshot that holds every listed endpoint under its
\* GUID in the bucket of its type and in no other bucket.
C7_EveryEndpointInItsBucket ==
  (pc = "done" /\ inputs.failure = "none" /\ faults = {}) =>
    /\ response.status = 200
    /\ \A i \in 1..Len(cnsiList) :
         LET c == cnsiList[i]
         IN /\ c.CNSIType \in DOMAIN s.Endpoints
            /\ c.GUID \in DOMAIN s.Endpoints[c.CNSIType]
            /\ s.Endpoints[c.CNSIType][c.GUID].GUID = c.GUID
            /\ \A t \in DOMAIN s.Endpoints \ {c.CNSIType} : c.GUID \notin DOMAIN s.Endpoints[t]

\* C8: from the initial struct to the returned snapshot, Endpoints has a key
\* for the non-empty type of every endpoint plugin and no key for the empty
\* type; in a returned snapshot the bucket of a type with no listed endpoint
\* is an empty map.
C8_BucketPerPluginType ==
  (pc \in {"list", "cnsi", "plugins"} \/ Returned) =>
    /\ \A i \in 1..Len(Plugins) :
         (Plugins[i].endpoint /\ Plugins[i].type # "") =>
           /\ Plugins[i].type \in DOMAIN s.Endpoints
           /\ (Returned /\ \A j \in 1..Len(cnsiList) : cnsiList[j].CNSIType # Plugins[i].type)
                => s.Endpoints[Plugins[i].type] = EmptyMap
    /\ "" \notin DOMAIN s.Endpoints

C8_Witness ==
  /\ Returned
  /\ inputs.storeOk
  /\ \E i \in 1..Len(Plugins) : Plugins[i].endpoint /\ Plugins[i].type = ""
  /\ \E i \in 1..Len(Plugins) :
       /\ Plugins[i].endpoint
       /\ Plugins[i].type # ""
       /\ s.Endpoints[Plugins[i].type] = EmptyMap

\* C9: a request whose session user id or user record cannot be resolved
\* ends with status 403 and an error text, without snapshot, and none of
\* buildCNSIList, GetCNSIUserAndToken, ListRelations, UpdateMetadata ran.
C9_NoIdentityNoSnapshot ==
  inputs.failure \in {"GetSessionStringValue", "GetUAAUser"} =>
    /\ pc = "done"
    /\ response.status = 403
    /\ response.error # Nil
    /\ s = EmptyInfo
    /\ called \cap LaterSteps = {}
    /\ cnsiList = <<>>
    /\ updated = <<>>

C9_Witness ==
  /\ pc = "done"
  /\ inputs.failure = "GetUAAUser"
  /\ response.status = 403
  /\ \E g \in GUIDs : cnsis[g] # Nil

\* C10: a request during which the store failed while the endpoints were
\* listed is not answered with a snapshot (here: while an endpoint is
\* registered, so that empty buckets are not the state of the registry).
C10_ListFailureIsFatal ==
  (pc = "done" /\ ~inputs.storeOk /\ \A g \in GUIDs : cnsis[g] # Nil) => response.status # 200

\* C11: an endpoint of the snapshot shows a connected user and token metadata
\* exactly when the store held a token of the requesting user or a
\* system-shared token for it when it was resolved; without either it shows
\* no user, no token metadata and SystemSharedToken = FALSE; it never shows
\* another user as connected; every listed endpoint is in a returned snapshot.
C11_CredentialPresence ==
  /\ \A g \in DOMAIN seen :
       g \in SnapshotGuids(s) =>
         LET d == Detail(s, g)
             present == seen[g].own \/ seen[g].shared
         IN /\ (d.User # Nil) <=> present
            /\ (d.TokenMetadata # Nil) <=> present
            /\ ~present => d.SystemSharedToken = FALSE
            /\ d.User \notin Users \ {userGUID}
            /\ seen[g].own => d.User = userGUID
  /\ Returned => \A i \in 1..Len(cnsiList) : cnsiList[i].GUID \in SnapshotGuids(s)

C11_Witness ==
  /\ Returned
  /\ \E g \in DOMAIN seen :
       /\ g \in SnapshotGuids(s)
       /\ ~seen[g].own
       /\ ~seen[g].shared
       /\ seen[g].other
       /\ Detail(s, g).User = Nil

\* The last of the plugins called that wrote the snapshot key, 0 if none did.
RECURSIVE LastKeyWriter(_)
LastKeyWriter(n) ==
  IF n = 0 THEN 0
  ELSE IF inputs.acts[updated[n]] = "setKey" THEN updated[n]
  ELSE LastKeyWriter(n - 1)

\* C12: a request that got as far as the plugin loop called UpdateMetadata
\* once on every endpoint plugin, in registration order, after the endpoints
\* were listed and the relations read; the snapshot key holds what the last
\* plugin that wrote it has written.
C12_EveryPluginOnceInOrder ==
  /\ updated # <<>> => {"buildCNSIList", "ListRelations"} \subseteq called
  /\ (pc = "done" /\ "ListRelations" \in called) =>
       /\ updated = EndpointPluginsFrom(1)
       /\ s.Key = LastKeyWriter(Len(updated))

\* C13: a request in which ListRelations failed is answered with a snapshot
\* that holds every listed endpoint with its credential data and without
\* relation data, and UpdateMetadata was called on every endpoint plugin.
C13_RelationFailureTolerated ==
  (pc = "done" /\ "ListRelations" \in called /\ ~inputs.relOk) =>
    /\ response.status = 200
    /\ updated = EndpointPluginsFrom(1)
    /\ \A i \in 1..Len(cnsiList) :
         /\ cnsiList[i].GUID \in SnapshotGuids(s)
         /\ Detail(s, cnsiList[i].GUID).Relations.isNil
         /\ (Detail(s, cnsiList[i].GUID).User # Nil)
              <=> (seen[cnsiList[i].GUID].own \/ seen[cnsiList[i].GUID].shared)

HasEntry(q, peer, type) ==
  \E i \in 1..Len(q) : q[i].Guid = peer /\ q[i].RelationType = type

\* The provides and receives lists of a and b mirror each other.
Mirrored(a, b) ==
  \A k \in RelKinds :
    HasEntry(Detail(s, a).Relations.Provides, b, k[1])
      <=> HasEntry(Detail(s, b).Relations.Receives, a, k[1])

\* C14: once the relations are attached, also when relations were created or
\* deleted while the request ran, for any endpoints A and B of the snapshot
\* A's Provides has an entry (B, t) exactly when B's Receives has an entry
\* (A, t).
C14_ListsFromOneRelationState ==
  rels.ok => \A a \in SnapshotGuids(s), b \in SnapshotGuids(s) : Mirrored(a, b)

\* The same for two different endpoints only.
DistinctEndpointsMirrored ==
  rels.ok => \A a \in SnapshotGuids(s) : \A b \in SnapshotGuids(s) \ {a} : Mirrored(a, b)

\* The entries of the relations of rl, from the i-th on, that g provides.
RECURSIVE ProvidedBy(_, _, _)
ProvidedBy(g, rl, i) ==
  IF i > Len(rl) THEN <<>>
  ELSE (IF rl[i].Provider = g THEN <<Entry(rl[i].Target, rl[i])>> ELSE <<>>)
         \o ProvidedBy(g, rl, i + 1)

\* The entries of the relations of rl, from the i-th on, that g receives from
\* another endpoint.
RECURSIVE ReceivedBy(_, _, _)
ReceivedBy(g, rl, i) ==
  IF i > Len(rl) THEN <<>>
  ELSE (IF rl[i].Target = g /\ rl[i].Provider # g
        THEN <<Entry(rl[i].Provider, rl[i])>> ELSE <<>>)
         \o ReceivedBy(g, rl, i + 1)

Touching(g, rl) == {i \in 1..Len(rl) : rl[i].Provider = g \/ rl[i].Target = g}

\* C15: once the relations are attached, the Provides and the Receives of an
\* endpoint hold their entries in the order of the relation list read, and
\* each relation that touches the endpoint has its own entry, equal relations
\* included (a self-relation has its entry in Provides).
C15_EntriesInListOrder ==
  rels.ok =>
    \A g \in SnapshotGuids(s) :
      LET d == Detail(s, g)
      IN /\ d.Relations.Provides = ProvidedBy(g, rels.list, 1)
         /\ d.Relations.Receives = ReceivedBy(g, rels.list, 1)
         /\ Len(d.Relations.Provides) + Len(d.Relations.Receives)
              = Cardinality(Touching(g, rels.list))

C15_Witness ==
  /\ Returned
  /\ rels.ok
  /\ Len(rels.list) = 2
  /\ rels.list[1] = rels.list[2]
  /\ rels.list[1].Provider # rels.list[1].Target
  /\ {rels.list[1].Provider, rels.list[1].Target} \subseteq SnapshotGuids(s)
  /\ Len(Detail(s, rels.list[1].Provider).Relations.Provides) = 2
  /\ Len(Detail(s, rels.list[1].Target).Relations.Receives) = 2

\* The largest total_pages over the endpoints of a response, 0 when it has none.
LargestTotalPages(res) ==
  LET totals == {res.body[g].total_pages : g \in {e \in EndpointGuids : res.body[e].present}}
  IN IF totals = {} THEN 0 ELSE CHOOSE m \in totals : \A n \in totals : n <= m

\* The page numbers 2..m as they appear in a URL, in order.
LaterPages(m) == IF m < 2 THEN <<>> ELSE [i \in 1..(m - 1) |-> ToString(i + 1)]

\* The page numbers of the fetches issued, in issue order.
Issued == [i \in 1..Len(requests) |-> requests[i].page]

\* The first response has arrived and no fetch has failed.
Fetched == flattenState \in {"fetching", "emitted", "thrown"}

\* C16: once the first response has arrived, the fetches issued are one for
\* each page 2..M, M the largest total_pages of the first response, none for
\* page 1 and none at all when M <= 1; at most one value is emitted, none
\* before every fetch has completed, and one once they all have.
C16_OneFetchPerLaterPage ==
  Fetched =>
    /\ Issued = LaterPages(LargestTotalPages(firstResData))
    /\ \A i \in 1..Len(requests) : requests[i].page # FirstPage
    /\ emissions <= 1
    /\ emissions = 1 => AllDone(requests)
    /\ AllDone(requests) => emissions = 1

\* What a response holds for an endpoint; nothing when the endpoint is absent
\* or has no resources.
ResourcesOn(res, g) ==
  IF res.isNull \/ ~res.body[g].present \/ ~res.body[g].hasResources THEN <<>>
  ELSE res.body[g].resources

\* The response to the fetch of page p.
PageResponse(p) ==
  requests[CHOOSE i \in 1..Len(requests) : requests[i].page = ToString(p)].resData

\* The resources of g on the pages p..m, in page order.
RECURSIVE ConcatPages(_, _, _)
ConcatPages(g, p, m) ==
  IF p > m THEN <<>>
  ELSE (IF p = 1 THEN ResourcesOn(firstResData, g) ELSE ResourcesOn(PageResponse(p), g))
         \o ConcatPages(g, p + 1, m)

\* C17: once every page has been fetched, the merged result holds, for every
\* endpoint of the first page, the resources of that endpoint on the pages
\* 1..M in page order, whatever order the pages completed in.
C17_MergedInPageOrder ==
  (Fetched /\ AllDone(requests)) =>
    /\ flattenState = "emitted"
    /\ \A g \in EndpointGuids :
         firstResData.body[g].present =>
           /\ merged[g].present
           /\ merged[g].resources = ConcatPages(g, 1, Len(requests) + 1)

\* C18: buildFetchParams leaves the page parameter of the stored request
\* options as it was, and the options built for page j carry page j.
C18_BuiltOptionsIndependent ==
  /\ paramsHeap[requestOptions.params].page = FirstPage
  /\ \A j \in 1..Len(builtOptions) :
       paramsHeap[builtOptions[j].params].page = ToString(j + 1)

\* C19: at most one details component is created for the cell, and after an
\* assignment with a details component in place, that component holds the
\* row assigned last and is flagged as shown in a table.
C19_CellShowsLatestRow ==
  /\ created <= 1
  /\ (assignments > 0 /\ cell.exists) => (cell.row = pRow /\ cell.isTable)

\* The first half of C19 on its own.
AtMostOneDetailsComponent == created <= 1
====
